---------------------------- MODULE Spec2Model ----------------------------
(***************************************************************************)
(* Model of dbt_up: the lineage validator (validate_lineage.py) and the    *)
(* registry publisher (dbt_up/publish_manifest.py).                        *)
(*                                                                         *)
(* Strings are sequences of letters.  The literal words "model" and        *)
(* "source" are single letters of the alphabet, "." is the dot, every      *)
(* other letter is one character of a name.  startswith and `in` are       *)
(* computed on these sequences exactly as Python computes them on str.     *)
(*                                                                         *)
(* A Python dict is a TLA+ function; its DOMAIN is the key set.            *)
(***************************************************************************)
EXTENDS Integers, Sequences, FiniteSets, TLC

VARIABLES
    \* ---- validate_lineage(manifest_path, upstream_project) -------------
    manifest_file,      \* the file at manifest_path
    upstream,           \* upstream_project
    vl_pc,              \* "ready" | "returned"
    vl_result,          \* what the call returned / printed / raised
    \* ---- validate_lineage.py main() ------------------------------------
    args,               \* parsed command line
    fs,                 \* path -> file found there
    manifests_to_check, \* list of paths
    all_passed,
    results,            \* list of (manifest_path, success, message)
    evaluated,          \* paths validate_lineage was called with, in call order
    loop_i,             \* position of the for loop in manifests_to_check
    main_pc,            \* "start" | "loop" | "exited"
    exit_code,          \* argument of sys.exit, -1 while running
    \* ---- publish_manifest.py -------------------------------------------
    clock,              \* datetime.utcnow(), in ticks
    target_manifest,    \* the file at manifest_path: [exists, content]
    local_dirs,         \* directories under registry_base
    local_files,        \* file path under registry_base -> bytes
    s3_objects,         \* key in the bucket -> bytes
    has_boto3,          \* HAS_BOTO3
    n_calls,            \* publish calls made so far
    last_call,          \* the latest publish call: who, where, when, outcome
    published           \* <<backend, env>> -> the latest successful publish there

vl_vars == <<manifest_file, upstream, vl_pc, vl_result>>

main_vars == <<args, fs, manifests_to_check, all_passed, results, evaluated,
               loop_i, main_pc, exit_code>>

pub_vars == <<clock, target_manifest, local_dirs, local_files, s3_objects,
              has_boto3, n_calls, last_call, published>>

vars == <<vl_vars, main_vars, pub_vars>>

-----------------------------------------------------------------------------
(* Bounds *)

MaxIdLen == 7        \* longest identifier (in letters) tried by the matcher
MaxList == 1         \* longest parents / depends_on.nodes list of a manifest
MaxCalls == 2        \* publish calls in one run
MaxClock == 3        \* last clock tick
TicksPerSecond == 2  \* clock ticks in one second

-----------------------------------------------------------------------------
(* str helpers *)

Dot == "."

\* str.startswith
startswith(s, prefix) ==
    /\ Len(prefix) <= Len(s)
    /\ SubSeq(s, 1, Len(prefix)) = prefix

\* `sub in s` on str
contains(s, sub) ==
    \E i \in 1..(Len(s) - Len(sub) + 1) : SubSeq(s, i, i + Len(sub) - 1) = sub

\* f"model.{upstream_project}."
model_prefix(upstream_project) == <<"model", Dot>> \o upstream_project \o <<Dot>>

\* f".{upstream_project}."
dotted(upstream_project) == <<Dot>> \o upstream_project \o <<Dot>>

\* "source."
source_prefix == <<"source", Dot>>

-----------------------------------------------------------------------------
(* validate_lineage.py *)

\* faulty variant: `(A or B) and C` instead of `A or (B and C)`
is_upstream_parent_precedence(parent, upstream_project) ==
    /\ \/ startswith(parent, model_prefix(upstream_project))
       \/ contains(parent, dotted(upstream_project))
    /\ startswith(parent, source_prefix)

\* the filter of the list comprehension over parents
is_upstream_parent(parent, upstream_project) ==
    \/ startswith(parent, model_prefix(upstream_project))
    \/ /\ contains(parent, dotted(upstream_project))
       /\ startswith(parent, source_prefix)

\* the filter of the list comprehension over depends_on
is_upstream_dep(dep, upstream_project) ==
    \/ startswith(dep, model_prefix(upstream_project))
    \/ /\ contains(dep, dotted(upstream_project))
       /\ startswith(dep, source_prefix)

\* manifest.get("parent_map", {})
get_parent_map(manifest) ==
    IF manifest.has_parent_map THEN manifest.parent_map ELSE <<>>

\* manifest.get("nodes", {})
get_nodes(manifest) ==
    IF manifest.has_nodes THEN manifest.nodes ELSE <<>>

\* node.get("depends_on", {}).get("nodes", [])
get_depends_on_nodes(node) ==
    IF node.has_depends_on THEN node.depends_on_nodes ELSE <<>>

\* faulty variant: a node is recorded even when none of its parents is upstream
find_cross_project_refs_keeps_empty(manifest, upstream_project) ==
    LET parent_map == get_parent_map(manifest)
    IN  [node_id \in DOMAIN parent_map |->
            SelectSeq(parent_map[node_id],
                      LAMBDA parent : is_upstream_parent(parent, upstream_project))]

find_cross_project_refs(manifest, upstream_project) ==
    LET parent_map == get_parent_map(manifest)
        upstream_parents(node_id) ==
            SelectSeq(parent_map[node_id],
                      LAMBDA parent : is_upstream_parent(parent, upstream_project))
    IN  [node_id \in {n \in DOMAIN parent_map : upstream_parents(n) # <<>>}
            |-> upstream_parents(node_id)]

find_cross_project_refs_in_nodes(manifest, upstream_project) ==
    LET nodes == get_nodes(manifest)
        upstream_deps(node_id) ==
            SelectSeq(get_depends_on_nodes(nodes[node_id]),
                      LAMBDA dep : is_upstream_dep(dep, upstream_project))
    IN  [node_id \in {n \in DOMAIN nodes : upstream_deps(n) # <<>>}
            |-> upstream_deps(node_id)]

\* faulty variant: the depends_on findings are left out of the merge
dict_merge_parent_only(parent_refs, node_refs) == parent_refs

\* {**parent_refs, **node_refs}
dict_merge(parent_refs, node_refs) ==
    [node_id \in (DOMAIN parent_refs) \cup (DOMAIN node_refs) |->
        IF node_id \in DOMAIN node_refs THEN node_refs[node_id]
                                        ELSE parent_refs[node_id]]

MsgValidated == [text |-> "Cross-project lineage validated successfully", arg |-> <<>>]
MsgPartial == [text |-> "Partial lineage found (depends_on only)", arg |-> <<>>]
MsgNoRefs(upstream_project) ==
    [text |-> "No cross-project references to '{upstream_project}' found in manifest",
     arg |-> upstream_project]

\* load_manifest: the exception it raises, "none" when it returns the dict
load_manifest_raises(file) ==
    CASE file.kind = "missing"      -> "FileNotFoundError"
      [] file.kind = "invalid_json" -> "JSONDecodeError"
      [] OTHER                      -> "none"

NoRefs == [n \in {} |-> <<>>]

Raised(exc) ==
    [raised |-> exc, passed |-> FALSE, message |-> [text |-> exc, arg |-> <<>>],
     parent_refs |-> NoRefs, node_refs |-> NoRefs, all_refs |-> NoRefs,
     printed |-> NoRefs]

validate_lineage(file, upstream_project) ==
    IF load_manifest_raises(file) # "none" THEN Raised(load_manifest_raises(file))
    ELSE IF file.kind = "not_object" THEN Raised("AttributeError")
    ELSE
    LET manifest == file.manifest
        parent_refs == find_cross_project_refs(manifest, upstream_project)
        node_refs == find_cross_project_refs_in_nodes(manifest, upstream_project)
        all_refs == dict_merge(parent_refs, node_refs)
        out == [raised |-> "none", parent_refs |-> parent_refs,
                node_refs |-> node_refs, all_refs |-> all_refs]
    IN  IF DOMAIN all_refs = {}
        THEN out @@ [passed |-> FALSE, message |-> MsgNoRefs(upstream_project),
                     printed |-> NoRefs]
        ELSE IF DOMAIN parent_refs # {}
        THEN out @@ [passed |-> TRUE, message |-> MsgValidated, printed |-> all_refs]
        ELSE out @@ [passed |-> TRUE, message |-> MsgPartial, printed |-> all_refs]


-----------------------------------------------------------------------------
(* Inputs of the validator *)

\* letters the matcher's identifiers are spelled with
Alphabet == {"model", "source", Dot, "u", "o"}

\* upstream project names (no dot inside, as dbt project names)
Upstreams == {<<"u">>, <<"u", "o">>}

Strings(n) == UNION {[1..k -> Alphabet] : k \in 0..n}

\* identifiers a manifest refers to: model.u.x, model.uo.x, source.d.u.x,
\* source.u.d.y
RefPool ==
    { <<"model", Dot, "u", Dot, "x">>,
      <<"model", Dot, "u", "o", Dot, "x">>,
      <<"source", Dot, "d", Dot, "u", Dot, "x">>,
      <<"source", Dot, "u", Dot, "d", Dot, "y">> }

NodeIds == {"model.down.a", "model.down.b"}

Lists == UNION {[1..k -> RefPool] : k \in 0..MaxList}

ParentMaps == UNION {[D -> Lists] : D \in SUBSET NodeIds}

NodeRecords ==
    {[has_depends_on |-> FALSE, depends_on_nodes |-> <<>>]}
    \cup {[has_depends_on |-> TRUE, depends_on_nodes |-> l] : l \in Lists}

NodesMaps == UNION {[D -> NodeRecords] : D \in SUBSET NodeIds}

Manifests ==
    {[has_parent_map |-> TRUE, parent_map |-> pm, has_nodes |-> TRUE, nodes |-> nd] :
        pm \in ParentMaps, nd \in NodesMaps}
    \cup {[has_parent_map |-> FALSE, parent_map |-> <<>>, has_nodes |-> TRUE, nodes |-> nd] :
        nd \in NodesMaps}
    \cup {[has_parent_map |-> TRUE, parent_map |-> pm, has_nodes |-> FALSE, nodes |-> <<>>] :
        pm \in ParentMaps}

LoadedFile(m) == [kind |-> "ok", manifest |-> m]

\* a manifest whose only node has the one identifier as parent and as dependency
OneRefManifest(ident) ==
    [has_parent_map |-> TRUE, parent_map |-> [n \in {"model.down.a"} |-> <<ident>>],
     has_nodes |-> TRUE,
     nodes |-> [n \in {"model.down.a"} |->
                  [has_depends_on |-> TRUE, depends_on_nodes |-> <<ident>>]]]

NotCalled == Raised("not called")

-----------------------------------------------------------------------------
(* One call of validate_lineage *)

\* main() is not running
MainIdle ==
    /\ args = [manifest |-> "none", project |-> "none", all |-> FALSE, upstream |-> <<>>]
    /\ fs = <<>>
    /\ manifests_to_check = <<>>
    /\ all_passed = TRUE
    /\ results = <<>>
    /\ evaluated = <<>>
    /\ loop_i = 0
    /\ main_pc = "idle"
    /\ exit_code = -1

Envs == {"prod", "dev"}

Backends == {"local", "s3"}

NoCall ==
    [fn |-> "none", backend |-> "none", env |-> "none", timestamp |-> "none",
     raised |-> "none"]

NeverPublished == [done |-> FALSE, timestamp |-> "none", content |-> <<>>]

\* the publisher is not running and its registries are empty
PublishIdle ==
    /\ clock = 0
    /\ target_manifest = [exists |-> FALSE, content |-> <<>>]
    /\ local_dirs = {}
    /\ local_files = <<>>
    /\ s3_objects = <<>>
    /\ has_boto3 = TRUE
    /\ n_calls = 0
    /\ last_call = NoCall
    /\ published = [k \in Backends \X Envs |-> NeverPublished]

ValidateInit ==
    /\ MainIdle
    /\ PublishIdle
    /\ manifest_file \in {LoadedFile(m) : m \in Manifests}
    /\ upstream \in Upstreams
    /\ vl_pc = "ready"
    /\ vl_result = NotCalled

MatchInit ==
    /\ MainIdle
    /\ PublishIdle
    /\ manifest_file \in {LoadedFile(OneRefManifest(ident)) : ident \in Strings(MaxIdLen)}
    /\ upstream \in Upstreams
    /\ vl_pc = "ready"
    /\ vl_result = NotCalled

CallValidateLineage ==
    /\ vl_pc = "ready"
    /\ vl_result' = validate_lineage(manifest_file, upstream)
    /\ vl_pc' = "returned"
    /\ UNCHANGED <<manifest_file, upstream, main_vars, pub_vars>>

ValidateNext == CallValidateLineage

SpecValidate == ValidateInit /\ [][ValidateNext]_vars

SpecMatch == MatchInit /\ [][ValidateNext]_vars

-----------------------------------------------------------------------------
(* The two cross-project conventions, read off the identifier's segments *)

RECURSIVE Split(_)
\* str.split(".")
Split(s) ==
    IF \A i \in 1..Len(s) : s[i] # Dot THEN <<s>>
    ELSE LET i == CHOOSE j \in 1..Len(s) :
                     s[j] = Dot /\ \A k \in 1..(j - 1) : s[k] # Dot
         IN  <<SubSeq(s, 1, i - 1)>> \o Split(SubSeq(s, i + 1, Len(s)))

\* model.<upstream>.X
IsModelRef(id, up) ==
    LET segs == Split(id)
    IN  Len(segs) >= 3 /\ segs[1] = <<"model">> /\ segs[2] = up

\* source.<any>.<upstream>.X : upstream is the third segment
IsSourceRefThird(id, up) ==
    LET segs == Split(id)
    IN  Len(segs) >= 4 /\ segs[1] = <<"source">> /\ segs[3] = up

\* source. ... .<upstream>. ... : upstream is a segment after the first and
\* before the last
IsSourceRefInner(id, up) ==
    LET segs == Split(id)
    IN  segs[1] = <<"source">> /\ \E i \in 2..(Len(segs) - 1) : segs[i] = up

IsCrossRef(id, up) == IsModelRef(id, up) \/ IsSourceRefInner(id, up)

Elems(list) == {list[i] : i \in 1..Len(list)}

\* the identifiers of the loaded manifest's parent_map ancestor lists
ParentIdents ==
    LET pm == get_parent_map(manifest_file.manifest)
    IN  UNION {Elems(pm[n]) : n \in DOMAIN pm}

\* the identifiers of the loaded manifest's depends_on.nodes lists
DependsIdents ==
    LET nd == get_nodes(manifest_file.manifest)
    IN  UNION {Elems(get_depends_on_nodes(nd[n])) : n \in DOMAIN nd}

Returned == vl_pc = "returned" /\ vl_result.raised = "none"

-----------------------------------------------------------------------------
(* Claims about validate_lineage *)

\* C1: for a manifest that loads, validate_lineage returns passed = FALSE
\* exactly when no identifier of any parent_map ancestor list and none of any
\* depends_on.nodes list matches a cross-project convention for the upstream;
\* otherwise it returns passed = TRUE.
C1_FailIffNoReference ==
    Returned =>
        (vl_result.passed = FALSE
            <=> \A id \in ParentIdents \cup DependsIdents : ~IsCrossRef(id, upstream))

\* a failing run on a manifest that has references, none to the upstream
C1_Witness ==
    /\ Returned
    /\ ~vl_result.passed
    /\ ParentIdents # {}
    /\ DependsIdents # {}

\* C2: when validate_lineage passes, the message is the strong one exactly
\* when some parent_map ancestor matches, the partial one exactly when only
\* depends_on.nodes has matches, and the two messages differ.
C2_PassDiagnostic ==
    (Returned /\ vl_result.passed) =>
        /\ vl_result.message = MsgValidated
            <=> \E id \in ParentIdents : IsCrossRef(id, upstream)
        /\ vl_result.message = MsgPartial
            <=> /\ \E id \in DependsIdents : IsCrossRef(id, upstream)
                /\ \A id \in ParentIdents : ~IsCrossRef(id, upstream)
        /\ MsgValidated # MsgPartial

\* a partial pass on a manifest whose parent_map has ancestors, none upstream
C2_Witness ==
    /\ Returned
    /\ vl_result.passed
    /\ vl_result.message = MsgPartial
    /\ ParentIdents # {}

\* an identifier of the node identifier grammar: source.<p>.<s>.<name>, or
\* <type>.<p>.<name>, no segment empty
Grammatical(id) ==
    LET segs == Split(id)
    IN  /\ \A i \in 1..Len(segs) : segs[i] # <<>>
        /\ Len(segs) = (IF segs[1] = <<"source">> THEN 4 ELSE 3)

\* C3 as stated: in both passes an identifier (of the node identifier
\* grammar) is kept exactly when it is model.<upstream>.X or
\* source.<any>.<upstream>.X with the upstream as third segment.
C3_KeptIffThirdSegment ==
    Returned =>
        \A id \in {i \in ParentIdents \cup DependsIdents : Grammatical(i)} :
            LET wanted == IsModelRef(id, upstream) \/ IsSourceRefThird(id, upstream)
            IN  /\ ("model.down.a" \in DOMAIN vl_result.parent_refs) <=> wanted
                /\ ("model.down.a" \in DOMAIN vl_result.node_refs) <=> wanted

\* C3 amended: in both passes an identifier is kept exactly when it is
\* model.<upstream>.X or it begins with "source." and has the upstream as a
\* dot-separated segment after the first and before the last.
C3_KeptIffInnerSegment ==
    Returned =>
        \A id \in ParentIdents \cup DependsIdents :
            /\ ("model.down.a" \in DOMAIN vl_result.parent_refs) <=> IsCrossRef(id, upstream)
            /\ ("model.down.a" \in DOMAIN vl_result.node_refs) <=> IsCrossRef(id, upstream)

\* a source identifier kept by both passes with the upstream as second segment
C3_Witness ==
    /\ Returned
    /\ \E id \in ParentIdents :
          /\ Grammatical(id)
          /\ IsSourceRefInner(id, upstream)
          /\ ~IsSourceRefThird(id, upstream)
          /\ vl_result.parent_refs = [n \in {"model.down.a"} |-> <<id>>]
          /\ vl_result.node_refs = [n \in {"model.down.a"} |-> <<id>>]

\* C10: the keys of all_refs are the union of the keys of parent_refs and
\* node_refs, and a node that is a key of both is reported with the union of
\* its parent_refs and node_refs entries.
C10_MergeIsUnion ==
    Returned =>
        /\ DOMAIN vl_result.all_refs
              = (DOMAIN vl_result.parent_refs) \cup (DOMAIN vl_result.node_refs)
        /\ \A n \in (DOMAIN vl_result.parent_refs) \cap (DOMAIN vl_result.node_refs) :
              Elems(vl_result.all_refs[n])
                 = Elems(vl_result.parent_refs[n]) \cup Elems(vl_result.node_refs[n])

-----------------------------------------------------------------------------
(* validate_lineage.py main() *)

\* no call of validate_lineage outside main() is in progress
ValidateIdle ==
    /\ manifest_file = [kind |-> "missing"]
    /\ upstream = <<>>
    /\ vl_pc = "idle"
    /\ vl_result = NotCalled

CustomPath == "custom/manifest.json"

\* script_dir / project / "target" / "manifest.json"
ProjectPath(project) ==
    IF project = "dbt_down_loom" THEN "dbt_down_loom/target/manifest.json"
                                 ELSE "dbt_down/target/manifest.json"

Paths == {CustomPath, ProjectPath("dbt_down_loom"), ProjectPath("dbt_down")}

\* a manifest whose parent_map resolves the upstream
ManifestStrong ==
    [has_parent_map |-> TRUE,
     parent_map |-> [n \in {"model.down.a"} |-> << <<"model", Dot, "u", Dot, "x">> >>],
     has_nodes |-> TRUE,
     nodes |-> [n \in {"model.down.a"} |->
                  [has_depends_on |-> TRUE,
                   depends_on_nodes |-> << <<"model", Dot, "u", Dot, "x">> >>]]]

\* a manifest that only declares the upstream in depends_on
ManifestPartial ==
    [has_parent_map |-> FALSE, parent_map |-> <<>>,
     has_nodes |-> TRUE,
     nodes |-> [n \in {"model.down.a"} |->
                  [has_depends_on |-> TRUE,
                   depends_on_nodes |-> << <<"source", Dot, "d", Dot, "u", Dot, "x">> >>]]]

\* a manifest without any reference to the upstream
ManifestNoRefs ==
    [has_parent_map |-> TRUE,
     parent_map |-> [n \in {"model.down.a"} |-> << <<"model", Dot, "o", Dot, "x">> >>],
     has_nodes |-> TRUE,
     nodes |-> [n \in {"model.down.a"} |->
                  [has_depends_on |-> FALSE, depends_on_nodes |-> <<>>]]]

\* what may be found at a path: nothing, text that is no JSON, JSON that is no
\* object (manifest.get raises AttributeError), or a manifest
Files ==
    { [kind |-> "missing"], [kind |-> "invalid_json"], [kind |-> "not_object"],
      LoadedFile(ManifestStrong), LoadedFile(ManifestPartial),
      LoadedFile(ManifestNoRefs) }

\* argparse: --project has choices, --manifest is a Path (truthy when given),
\* --all is store_true, --upstream a name
ArgSets ==
    [manifest : {"none", CustomPath},
     project : {"none", "dbt_down_loom", "dbt_down"},
     all : BOOLEAN,
     upstream : {<<"u">>}]

MainInit ==
    /\ ValidateIdle
    /\ PublishIdle
    /\ args \in ArgSets
    /\ fs \in [Paths -> Files]
    /\ manifests_to_check = <<>>
    /\ all_passed = TRUE
    /\ results = <<>>
    /\ evaluated = <<>>
    /\ loop_i = 0
    /\ main_pc = "start"
    /\ exit_code = -1

\* lines 166-176 and 187-188
SelectManifests ==
    /\ main_pc = "start"
    /\ args.manifest # "none" \/ args.project # "none" \/ args.all
    /\ manifests_to_check' =
          IF args.manifest # "none" THEN <<args.manifest>>
          ELSE IF args.project # "none" THEN <<ProjectPath(args.project)>>
          ELSE <<ProjectPath("dbt_down_loom"), ProjectPath("dbt_down")>>
    /\ all_passed' = TRUE
    /\ results' = <<>>
    /\ loop_i' = 1
    /\ main_pc' = "loop"
    /\ UNCHANGED <<args, fs, evaluated, exit_code, vl_vars, pub_vars>>

\* lines 177-184
UsageExit ==
    /\ main_pc = "start"
    /\ ~(args.manifest # "none" \/ args.project # "none" \/ args.all)
    /\ exit_code' = 1
    /\ main_pc' = "exited"
    /\ UNCHANGED <<args, fs, manifests_to_check, all_passed, results, evaluated,
                   loop_i, vl_vars, pub_vars>>

InLoop == main_pc = "loop" /\ loop_i <= Len(manifests_to_check)

manifest_path == manifests_to_check[loop_i]

\* faulty variant: a passing or failing return leaves all_passed alone
IterReturnedKeepsFlag ==
    /\ InLoop
    /\ LET r == validate_lineage(fs[manifest_path], args.upstream)
       IN  /\ r.raised = "none"
           /\ results' = Append(results,
                 [path |-> manifest_path, success |-> r.passed, message |-> r.message])
           /\ all_passed' = all_passed
    /\ evaluated' = Append(evaluated, manifest_path)
    /\ loop_i' = loop_i + 1
    /\ UNCHANGED <<args, fs, manifests_to_check, main_pc, exit_code, vl_vars, pub_vars>>

\* lines 190-196: the try body ran to its end
IterReturned ==
    /\ InLoop
    /\ LET r == validate_lineage(fs[manifest_path], args.upstream)
       IN  /\ r.raised = "none"
           /\ results' = Append(results,
                 [path |-> manifest_path, success |-> r.passed, message |-> r.message])
           /\ all_passed' = (IF ~r.passed THEN FALSE ELSE all_passed)
    /\ evaluated' = Append(evaluated, manifest_path)
    /\ loop_i' = loop_i + 1
    /\ UNCHANGED <<args, fs, manifests_to_check, main_pc, exit_code, vl_vars, pub_vars>>

\* faulty variant: the handler records the failure and leaves the loop
IterFileNotFoundBreaks ==
    /\ InLoop
    /\ LET r == validate_lineage(fs[manifest_path], args.upstream)
       IN  /\ r.raised = "FileNotFoundError"
           /\ results' = Append(results,
                 [path |-> manifest_path, success |-> FALSE, message |-> r.message])
    /\ all_passed' = FALSE
    /\ evaluated' = Append(evaluated, manifest_path)
    /\ loop_i' = Len(manifests_to_check) + 1
    /\ UNCHANGED <<args, fs, manifests_to_check, main_pc, exit_code, vl_vars, pub_vars>>

\* lines 197-200: except FileNotFoundError
IterFileNotFound ==
    /\ InLoop
    /\ LET r == validate_lineage(fs[manifest_path], args.upstream)
       IN  /\ r.raised = "FileNotFoundError"
           /\ results' = Append(results,
                 [path |-> manifest_path, success |-> FALSE, message |-> r.message])
    /\ all_passed' = FALSE
    /\ evaluated' = Append(evaluated, manifest_path)
    /\ loop_i' = loop_i + 1
    /\ UNCHANGED <<args, fs, manifests_to_check, main_pc, exit_code, vl_vars, pub_vars>>

\* lines 201-204: except Exception
IterException ==
    /\ InLoop
    /\ LET r == validate_lineage(fs[manifest_path], args.upstream)
       IN  /\ r.raised \notin {"none", "FileNotFoundError"}
           /\ results' = Append(results,
                 [path |-> manifest_path, success |-> FALSE, message |-> r.message])
    /\ all_passed' = FALSE
    /\ evaluated' = Append(evaluated, manifest_path)
    /\ loop_i' = loop_i + 1
    /\ UNCHANGED <<args, fs, manifests_to_check, main_pc, exit_code, vl_vars, pub_vars>>

\* lines 206-222
SummaryExit ==
    /\ main_pc = "loop"
    /\ loop_i > Len(manifests_to_check)
    /\ exit_code' = (IF all_passed THEN 0 ELSE 1)
    /\ main_pc' = "exited"
    /\ UNCHANGED <<args, fs, manifests_to_check, all_passed, results, evaluated,
                   loop_i, vl_vars, pub_vars>>

MainNext ==
    \/ SelectManifests
    \/ UsageExit
    \/ IterReturned
    \/ IterFileNotFound
    \/ IterException
    \/ SummaryExit

SpecMain == MainInit /\ [][MainNext]_vars

-----------------------------------------------------------------------------
(* Claims about main() *)

SelectionGiven == args.manifest # "none" \/ args.project # "none" \/ args.all

\* the manifest at the path loads and validate_lineage passes on it
ReachesPass(path) ==
    /\ fs[path].kind = "ok"
    /\ \E id \in LET m == fs[path].manifest
                     pm == get_parent_map(m)
                     nd == get_nodes(m)
                 IN  UNION {Elems(pm[n]) : n \in DOMAIN pm}
                     \cup UNION {Elems(get_depends_on_nodes(nd[n])) : n \in DOMAIN nd} :
          IsCrossRef(id, args.upstream)

\* C4: every selected manifest is evaluated exactly once, in list order, and
\* gets exactly one result entry; a manifest whose evaluation raises is
\* recorded as FAIL and the manifests after it are still evaluated.
C4_EveryManifestEvaluatedOnce ==
    /\ main_pc \in {"loop", "exited"} /\ SelectionGiven =>
        /\ Len(evaluated) = Len(results)
        /\ Len(evaluated) = loop_i - 1
        /\ evaluated = SubSeq(manifests_to_check, 1, Len(evaluated))
        /\ \A i \in 1..Len(results) :
              /\ results[i].path = manifests_to_check[i]
              /\ fs[manifests_to_check[i]].kind # "ok" => ~results[i].success
    /\ main_pc = "exited" /\ SelectionGiven => evaluated = manifests_to_check

\* --all finished although the first manifest is missing and the second is not
C4_Witness ==
    /\ main_pc = "exited"
    /\ Len(manifests_to_check) = 2
    /\ fs[manifests_to_check[1]].kind = "missing"
    /\ fs[manifests_to_check[2]].kind = "invalid_json"
    /\ Len(results) = 2

-----------------------------------------------------------------------------
(* publish_manifest.py *)

\* --project default
Project == "dbt_up"

\* --bucket
Bucket == "mesh-bucket"

\* bytes of a manifest file: "{}" is the text of a JSON object, "[]" of a JSON
\* array, "x" is text that is no JSON, CR and LF are the line-end bytes
ManifestContents ==
    { <<"{}">>, <<"{}", "CR", "LF">>, <<"[]">>, <<"x">> }

ManifestFiles ==
    {[exists |-> FALSE, content |-> <<>>]}
    \cup {[exists |-> TRUE, content |-> c] : c \in ManifestContents}

\* datetime.utcnow().strftime("%Y%m%dT%H%M%SZ"): the second the tick lies in
strftime(now) == ToString(now \div TicksPerSecond)

RECURSIVE read_text(_)
\* open(path, 'r').read(): universal newlines, "\r\n" and "\r" read as "\n"
read_text(bytes) ==
    IF bytes = <<>> THEN <<>>
    ELSE IF Head(bytes) = "CR"
         THEN <<"LF">> \o read_text(IF Len(bytes) >= 2 /\ bytes[2] = "LF"
                                    THEN SubSeq(bytes, 3, Len(bytes))
                                    ELSE Tail(bytes))
         ELSE <<Head(bytes)>> \o read_text(Tail(bytes))

\* put_object(Body=str): the text encoded as UTF-8
encode_body(text) == text

\* json.load on the text: "object", "array" or "JSONDecodeError"
json_load(text) ==
    LET values == SelectSeq(text, LAMBDA c : c \notin {"CR", "LF"})
    IN  IF values = <<"{}">> THEN "object"
        ELSE IF values = <<"[]">> THEN "array"
        ELSE "JSONDecodeError"

\* registry_base / project_name / env / "latest"
LatestDir(project_name, env) == <<project_name, env, "latest">>

\* faulty variant: the history directory is not keyed by the timestamp
HistoryDirNoTimestamp(project_name, env, timestamp) ==
    <<project_name, env, "history">>

\* registry_base / project_name / env / "history" / timestamp
HistoryDir(project_name, env, timestamp) ==
    <<project_name, env, "history", timestamp>>

\* f"registry/{project_name}/{env}/latest/manifest.json"
LatestKey(project_name, env) ==
    <<"registry", project_name, env, "latest", "manifest.json">>

\* f"registry/{project_name}/{env}/history/{timestamp}/manifest.json"
HistoryKey(project_name, env, timestamp) ==
    <<"registry", project_name, env, "history", timestamp, "manifest.json">>

\* Path.mkdir(parents=True, exist_ok=True)
mkdir_parents(dirs, path) == dirs \cup {SubSeq(path, 1, k) : k \in 0..Len(path)}

\* writing bytes at a path or key, replacing what is there
write_at(store, where, bytes) ==
    [w \in (DOMAIN store) \cup {where} |-> IF w = where THEN bytes ELSE store[w]]

publish_local(manifest, project_name, env, now, dirs, files) ==
    LET timestamp == strftime(now)
        latest_dir == LatestDir(project_name, env)
        history_dir == HistoryDir(project_name, env, timestamp)
        made == mkdir_parents(mkdir_parents(dirs, latest_dir), history_dir)
        latest_path == latest_dir \o <<"manifest.json">>
        history_path == history_dir \o <<"manifest.json">>
    IN  IF ~manifest.exists
        THEN [raised |-> "FileNotFoundError", dirs |-> made, files |-> files]
        ELSE [raised |-> "none", dirs |-> made,
              files |-> write_at(write_at(files, latest_path, manifest.content),
                                 history_path, manifest.content)]

publish_s3(manifest, project_name, env, now, boto3, objects) ==
    LET timestamp == strftime(now)
        latest_key == LatestKey(project_name, env)
        history_key == HistoryKey(project_name, env, timestamp)
        manifest_content == read_text(manifest.content)
    IN  IF ~boto3 THEN [raised |-> "ImportError", objects |-> objects]
        ELSE IF ~manifest.exists
        THEN [raised |-> "FileNotFoundError", objects |-> objects]
        ELSE [raised |-> "none",
              objects |-> write_at(write_at(objects, latest_key,
                                            encode_body(manifest_content)),
                                   history_key, encode_body(manifest_content))]

\* get_manifest_path: the exception it raises, "none" when it returns the path
get_manifest_path_raises(manifest) ==
    IF ~manifest.exists THEN "FileNotFoundError" ELSE "none"

\* main(): what it raised, which backend it used, and the registries after it
publish_main(manifest, cli, now, boto3, dirs, files, objects) ==
    LET untouched(exc) == [raised |-> exc, backend |-> "none", dirs |-> dirs,
                           files |-> files, objects |-> objects]
        parsed == json_load(read_text(manifest.content))
    IN  IF get_manifest_path_raises(manifest) # "none"
        THEN untouched(get_manifest_path_raises(manifest))
        ELSE IF parsed = "JSONDecodeError" THEN untouched("JSONDecodeError")
        ELSE IF parsed = "array" THEN untouched("AttributeError")
        ELSE IF cli.local
        THEN LET r == publish_local(manifest, cli.project, cli.env, now, dirs, files)
             IN  [raised |-> r.raised, backend |-> "local", dirs |-> r.dirs,
                  files |-> r.files, objects |-> objects]
        ELSE IF cli.bucket = "none" THEN untouched("ValueError")
        ELSE LET r == publish_s3(manifest, cli.project, cli.env, now, boto3, objects)
             IN  [raised |-> r.raised, backend |-> "s3", dirs |-> dirs,
                  files |-> files, objects |-> r.objects]

-----------------------------------------------------------------------------
(* Runs of the publisher *)

PublishInit ==
    /\ ValidateIdle
    /\ MainIdle
    /\ clock = 0
    /\ target_manifest \in ManifestFiles
    /\ local_dirs = {}
    /\ local_files = <<>>
    /\ s3_objects = <<>>
    /\ has_boto3 \in BOOLEAN
    /\ n_calls = 0
    /\ last_call = NoCall
    /\ published = [k \in Backends \X Envs |-> NeverPublished]

\* time passes
Tick ==
    /\ clock < MaxClock
    /\ clock' = clock + 1
    /\ UNCHANGED <<target_manifest, local_dirs, local_files, s3_objects, has_boto3,
                   n_calls, last_call, published, vl_vars, main_vars>>

\* the build tool writes, rewrites or removes target/manifest.json
Build ==
    /\ n_calls < MaxCalls
    /\ target_manifest' \in ManifestFiles \ {target_manifest}
    /\ UNCHANGED <<clock, local_dirs, local_files, s3_objects, has_boto3,
                   n_calls, last_call, published, vl_vars, main_vars>>

Record(fn, backend, env, raised) ==
    /\ n_calls' = n_calls + 1
    /\ last_call' = [fn |-> fn, backend |-> backend, env |-> env,
                     timestamp |-> strftime(clock), raised |-> raised]
    /\ published' =
          [k \in Backends \X Envs |->
              IF raised = "none" /\ k = <<backend, env>>
              THEN [done |-> TRUE, timestamp |-> strftime(clock),
                    content |-> target_manifest.content]
              ELSE published[k]]

CallPublishLocal ==
    /\ n_calls < MaxCalls
    /\ \E env \in Envs :
          LET r == publish_local(target_manifest, Project, env, clock,
                                 local_dirs, local_files)
          IN  /\ local_dirs' = r.dirs
              /\ local_files' = r.files
              /\ Record("publish_local", "local", env, r.raised)
    /\ UNCHANGED <<clock, target_manifest, s3_objects, has_boto3, vl_vars, main_vars>>

CallPublishS3 ==
    /\ n_calls < MaxCalls
    /\ \E env \in Envs :
          LET r == publish_s3(target_manifest, Project, env, clock, has_boto3,
                              s3_objects)
          IN  /\ s3_objects' = r.objects
              /\ Record("publish_s3", "s3", env, r.raised)
    /\ UNCHANGED <<clock, target_manifest, local_dirs, local_files, has_boto3,
                   vl_vars, main_vars>>

CallMain ==
    /\ n_calls < MaxCalls
    /\ \E cli \in [local : BOOLEAN, bucket : {"none", Bucket}, env : Envs,
                   project : {Project}] :
          LET r == publish_main(target_manifest, cli, clock, has_boto3,
                                local_dirs, local_files, s3_objects)
          IN  /\ local_dirs' = r.dirs
              /\ local_files' = r.files
              /\ s3_objects' = r.objects
              /\ Record("main", r.backend, cli.env, r.raised)
    /\ UNCHANGED <<clock, target_manifest, has_boto3, vl_vars, main_vars>>

PublishNext ==
    \/ Tick
    \/ Build
    \/ CallPublishLocal
    \/ CallPublishS3
    \/ CallMain

SpecPublish == PublishInit /\ [][PublishNext]_vars

\* the same call made on both backends: same manifest, project, environment
\* and time
MirrorPublish ==
    /\ n_calls < MaxCalls
    /\ \E env \in Envs :
          LET l == publish_local(target_manifest, Project, env, clock,
                                 local_dirs, local_files)
              r == publish_s3(target_manifest, Project, env, clock, has_boto3,
                              s3_objects)
          IN  /\ local_dirs' = l.dirs
              /\ local_files' = l.files
              /\ s3_objects' = r.objects
              /\ n_calls' = n_calls + 1
              /\ last_call' = [fn |-> "both", backend |-> "both", env |-> env,
                               timestamp |-> strftime(clock), raised |-> l.raised]
              /\ published' =
                    [k \in Backends \X Envs |->
                        IF \/ k = <<"local", env>> /\ l.raised = "none"
                           \/ k = <<"s3", env>> /\ r.raised = "none"
                        THEN [done |-> TRUE, timestamp |-> strftime(clock),
                              content |-> target_manifest.content]
                        ELSE published[k]]
    /\ UNCHANGED <<clock, target_manifest, has_boto3, vl_vars, main_vars>>

MirrorInit ==
    /\ ValidateIdle
    /\ MainIdle
    /\ clock = 0
    /\ target_manifest \in ManifestFiles
    /\ local_dirs = {}
    /\ local_files = <<>>
    /\ s3_objects = <<>>
    /\ has_boto3 = TRUE
    /\ n_calls = 0
    /\ last_call = NoCall
    /\ published = [k \in Backends \X Envs |-> NeverPublished]

MirrorNext ==
    \/ Tick
    \/ Build
    \/ MirrorPublish

SpecMirror == MirrorInit /\ [][MirrorNext]_vars

-----------------------------------------------------------------------------
(* Claims about the publisher *)

Timestamps == {ToString(sec) : sec \in 0..MaxClock}

\* where a backend keeps the latest partition of an environment
LatestAt(backend, env) ==
    IF backend = "local" THEN <<Project, env, "latest", "manifest.json">>
    ELSE <<"registry", Project, env, "latest", "manifest.json">>

\* where a backend keeps the history partition of an environment and timestamp
HistoryAt(backend, env, ts) ==
    IF backend = "local" THEN <<Project, env, "history", ts, "manifest.json">>
    ELSE <<"registry", Project, env, "history", ts, "manifest.json">>

\* the timestamps of the history partitions a store holds for an environment
HistoryOf(store, backend, env) ==
    {ts \in Timestamps : HistoryAt(backend, env, ts) \in DOMAIN store}

StoreOf(backend, files, objects) == IF backend = "local" THEN files ELSE objects

\* this step is a publish call that returned
PublishReturned ==
    /\ n_calls' = n_calls + 1
    /\ last_call'.raised = "none"

\* every history partition of `before`, except the one named, is in `after`
\* with the same content
HistoryKept(before, after, backend, except) ==
    \A env \in Envs : \A ts \in HistoryOf(before, backend, env) :
        <<env, ts>> # except =>
            /\ HistoryAt(backend, env, ts) \in DOMAIN after
            /\ after[HistoryAt(backend, env, ts)] = before[HistoryAt(backend, env, ts)]

\* C6 as stated: every publish call that returns creates a history partition
\* that was not there before, and leaves every earlier history partition in
\* place with its content.
C6_EveryCallNewPartition ==
    [][PublishReturned =>
        LET b == last_call'.backend
            before == StoreOf(b, local_files, s3_objects)
            after == StoreOf(b, local_files', s3_objects')
        IN  /\ last_call'.timestamp \notin HistoryOf(before, b, last_call'.env)
            /\ last_call'.timestamp \in HistoryOf(after, b, last_call'.env)
            /\ HistoryKept(before, after, b, <<"none", "none">>)
      ]_vars

\* C6 amended: a publish call whose timestamp (UTC second) no history
\* partition of that project and environment carries yet creates a new history
\* partition holding what the call published, and no step changes or removes
\* a history partition of another environment or timestamp.
C6_NewSecondNewPartition ==
    [][/\ PublishReturned =>
            LET b == last_call'.backend
                before == StoreOf(b, local_files, s3_objects)
                after == StoreOf(b, local_files', s3_objects')
            IN  /\ last_call'.timestamp \notin HistoryOf(before, b, last_call'.env)
                     => HistoryOf(after, b, last_call'.env)
                           = HistoryOf(before, b, last_call'.env)
                                \cup {last_call'.timestamp}
                /\ after[HistoryAt(b, last_call'.env, last_call'.timestamp)]
                     = after[LatestAt(b, last_call'.env)]
                /\ HistoryKept(before, after, b,
                               <<last_call'.env, last_call'.timestamp>>)
                /\ \A other \in Backends \ {b} :
                      HistoryKept(StoreOf(other, local_files, s3_objects),
                                  StoreOf(other, local_files', s3_objects'),
                                  other, <<"none", "none">>)
       /\ ~PublishReturned =>
            \A b \in Backends :
                HistoryKept(StoreOf(b, local_files, s3_objects),
                            StoreOf(b, local_files', s3_objects'), b,
                            <<"none", "none">>)
      ]_vars

\* the same manifest published twice in different seconds: two history
\* partitions with the same content
C6_Witness ==
    \E b \in Backends : \E env \in Envs :
        LET store == StoreOf(b, local_files, s3_objects)
        IN  /\ n_calls = 2
            /\ Cardinality(HistoryOf(store, b, env)) = 2
            /\ \A t1, t2 \in HistoryOf(store, b, env) :
                  store[HistoryAt(b, env, t1)] = store[HistoryAt(b, env, t2)]

\* C7: where a publish has returned, the latest partition exists and holds
\* the manifest content of the most recent publish, and so does the history
\* partition that publish wrote.
C7_LatestIsMostRecent ==
    \A b \in Backends : \A env \in Envs :
        published[<<b, env>>].done =>
            LET store == StoreOf(b, local_files, s3_objects)
                last == published[<<b, env>>]
            IN  /\ LatestAt(b, env) \in DOMAIN store
                /\ store[LatestAt(b, env)] = last.content
                /\ HistoryAt(b, env, last.timestamp) \in DOMAIN store
                /\ store[HistoryAt(b, env, last.timestamp)] = last.content

\* C8: a publish call made while the manifest file does not exist fails with
\* a not-found error and changes no directory, file or object.
C8_MissingManifestNoWrite ==
    [][(n_calls' = n_calls + 1 /\ ~target_manifest.exists) =>
          /\ has_boto3 => last_call'.raised = "FileNotFoundError"
          /\ UNCHANGED <<local_dirs, local_files, s3_objects>>
      ]_vars

\* the partitions of a backend, whatever its addressing, with their content
PartitionIds ==
    {<<env, "latest", "-">> : env \in Envs}
    \cup {<<env, "history", ts>> : env \in Envs, ts \in Timestamps}

AddressOf(backend, id) ==
    IF id[2] = "latest" THEN LatestAt(backend, id[1])
                        ELSE HistoryAt(backend, id[1], id[3])

View(backend) ==
    LET store == StoreOf(backend, local_files, s3_objects)
    IN  [id \in {i \in PartitionIds : AddressOf(backend, i) \in DOMAIN store} |->
            store[AddressOf(backend, id)]]

\* C9: fed the same publish calls, the local and the S3 registry hold the same
\* partitions with the same content, and what the latest call wrote is the
\* manifest's content.
C9_BackendsEquivalent ==
    /\ View("local") = View("s3")
    /\ Cardinality(DOMAIN local_files) = Cardinality(DOMAIN View("local"))
    /\ Cardinality(DOMAIN s3_objects) = Cardinality(DOMAIN View("s3"))
    /\ (last_call.fn = "both" /\ last_call.raised = "none") =>
          \A b \in Backends :
             /\ View(b)[<<last_call.env, "latest", "-">>] = target_manifest.content
             /\ View(b)[<<last_call.env, "history", last_call.timestamp>>]
                   = target_manifest.content

=============================================================================
